---------------------------- MODULE Spec2Model ----------------------------
(***************************************************************************)
(* Long-running-operation client of the connectedvmware vendored SDK:      *)
(* AzureArcVMwareManagementServiceAPIOperationsMixin                       *)
(*   _upgrade_extensions_initial  (the initial POST and its error mapping) *)
(*   begin_upgrade_extensions     (keyword handling, poller construction)  *)
(* The poller that begin_upgrade_extensions constructs (AsyncLROPoller,    *)
(* AsyncARMPolling, AsyncNoPolling) is imported, not defined, by the       *)
(* repository: its poll / resume / result / waitForCompletion steps are    *)
(* modelled from spec.md section 4.1 and are marked so where they appear.  *)
(*                                                                         *)
(* Registration and feature probes of aks-preview:                         *)
(*   azuremonitormetrics/helper.py  (rp_registrations, post_request,       *)
(*   check_azuremonitormetrics_profile)                                    *)
(*                                                                         *)
(* Argument validators of the load extension:                              *)
(*   data_plane/utils/validators.py  (validate_env_vars,                   *)
(*   validate_regionwise_engines, the ISO-time and the path validators,    *)
(*   validate_event, validate_add_event)                                   *)
(***************************************************************************)
EXTENDS Integers, Sequences, FiniteSets, TLC

(***************************************************************************)
(* Bounds of the model.                                                    *)
(***************************************************************************)
\* number of begin_upgrade_extensions calls made on the one client
MaxCalls == 2
\* number of poll responses the service gives for one operation
MaxPolls == 2

Slots == 1..MaxCalls

(***************************************************************************)
(* Values of the keyword arguments and of the service's answers.           *)
(***************************************************************************)
\* status codes the service answers the initial POST with
StatusCodes == {200, 201, 202, 204, 401, 404, 409, 500}
\* error.code of an ARMErrorFormat body {error: {code, message}}; "" = no body
BodyCodes == {"", "Conflict"}
\* polling keyword: True, False, or the caller's own initialized polling object
PollingValues == {"True", "False", "Object"}
\* polling_interval keyword: << >> when not passed, <<n>> when passed
PollingIntervals == {<< >>, <<2>>}
\* self._config.polling_interval of the client
ConfigPollingInterval == 1
\* the interval the caller's own polling object was initialized with
ObjectPollingInterval == 1
\* Retry-After header of a poll response: << >> when absent
RetryAfterValues == {<< >>, <<2>>}
\* cls keyword: "None", or a callable that returns the pipeline response
ClsValues == {"None", "Cls"}
\* error_map keyword: status code -> error kind, << >> when not passed
ErrorMapOverrides == {<< >>, 409 :> "CustomError", 500 :> "CustomError"}

VARIABLES
    calls,          \* per call slot: position, keywords, error or handle
    svcLog,         \* per operation: the poll responses the service has given
    errorMapTable,  \* the dict literal `error_map` is initialised from
    rp,             \* the run of rp_registrations
    probe,          \* per cluster: the call of check_azuremonitormetrics_profile
    parsed,         \* the parsed-arguments record as the command line gave it
    namespace,      \* the parsed-arguments record the validators work on
    validated,      \* the validator called, and the error it raised
    sanitized       \* a resource id, and what the calls of sanitize_resource_id gave

lroVars == <<calls, svcLog, errorMapTable>>
helperVars == <<rp, probe, sanitized>>
validatorVars == <<parsed, namespace, validated>>
vars ==
    <<calls, svcLog, errorMapTable, rp, probe, parsed, namespace, validated,
      sanitized>>

(***************************************************************************)
(* _upgrade_extensions_initial                                             *)
(***************************************************************************)
\* lines 36-38: the error_map literal
DefaultErrorMap ==
    (401 :> "ClientAuthenticationError") @@ (404 :> "ResourceNotFoundError")
        @@ (409 :> "ResourceExistsError")

\* dict.update, line 39: the override's entries replace the literal's
update(error_map, override) ==
    [k \in (DOMAIN error_map) \cup (DOMAIN override) |->
        IF k \in DOMAIN override THEN override[k] ELSE error_map[k]]

\* Faulty variant: the update of line 39 writes the shared literal.
ErrorMapTableAfterCall_aliased(table, local) == local

\* lines 36-39: `error_map = {...}` builds a new dict in every call, so the
\* update of line 39 writes the call's own dict and the literal is unchanged
ErrorMapTableAfterCall(table, local) == table

\* Faulty variant: 201 and 204 are accepted too.
AcceptedStatusCodes_spec == {200, 201, 202, 204}

\* line 65: `if response.status_code not in [200, 202]`
AcceptedStatusCodes == {200, 202}

\* Faulty variant: the error_map keyword is ignored.
map_error_default(status_code, error_map) ==
    IF status_code \in DOMAIN DefaultErrorMap
    THEN DefaultErrorMap[status_code] ELSE "HttpResponseError"

\* lines 66-67: map_error raises error_map[status_code] when the map has the
\* status code; otherwise line 67 raises the generic HttpResponseError
map_error(status_code, error_map) ==
    IF status_code \in DOMAIN error_map
    THEN error_map[status_code] ELSE "HttpResponseError"

(***************************************************************************)
(* begin_upgrade_extensions                                                *)
(***************************************************************************)
\* continuation_token keyword: None, the empty string, a string that is no
\* token, or a token a handle produced (operation, polls seen, last status)
NoToken == [kind |-> "None", op |-> 0, pos |-> 0, status |-> ""]
EmptyToken == [kind |-> "Empty", op |-> 0, pos |-> 0, status |-> ""]
GarbageToken == [kind |-> "Garbage", op |-> 0, pos |-> 0, status |-> ""]

NoError == [kind |-> "", code |-> ""]

NoResult == [outcome |-> "NotCalled", value |-> << >>, at |-> ""]

\* a handle: status; strategy; the operation polled and the number of its
\* responses seen; the pipeline response that reported Succeeded; the seconds
\* still to pass before the next poll is allowed; what the last poll or wait
\* did; whether a waitForCompletion is pending; how the handle was made; what
\* result returned, and at which status
NoHandle ==
    [status |-> "NoHandle", polling_method |-> [kind |-> "", timeout |-> 0],
     op |-> 0, pos |-> 0, final |-> << >>, wait |-> 0,
     lastOutcome |-> "", waiting |-> FALSE,
     origin |-> "", result |-> NoResult]

IdleCall ==
    [pc |-> "idle", polling |-> "True", polling_interval |-> << >>,
     cls |-> "None", override |-> << >>, cont_token |-> NoToken,
     error_map |-> << >>, posts |-> 0, status_code |-> << >>,
     error |-> NoError, handle |-> NoHandle]

\* Faulty variant: the polling_interval keyword is ignored.
lro_delay_config(polling_interval) == ConfigPollingInterval

\* lines 108-111: kwargs.pop('polling_interval', self._config.polling_interval)
lro_delay(polling_interval) ==
    IF polling_interval = << >> THEN ConfigPollingInterval ELSE polling_interval[1]

\* Faulty variant: a truthiness test instead of `is True`.
polling_method_truthy(polling, delay) ==
    IF polling # "False"
    THEN [kind |-> "AsyncARMPolling", timeout |-> delay]
    ELSE [kind |-> "AsyncNoPolling", timeout |-> 0]

\* lines 130-132: the polling strategy of the call
polling_method(polling, delay) ==
    IF polling = "True" THEN [kind |-> "AsyncARMPolling", timeout |-> delay]
    ELSE IF polling = "False" THEN [kind |-> "AsyncNoPolling", timeout |-> 0]
    ELSE [kind |-> "Object", timeout |-> ObjectPollingInterval]

\* Faulty variant: the callback ignores cls.
get_long_running_output_nocls(cls, pipeline_response) == << >>

\* lines 125-127: cls(pipeline_response, None, {}) when cls is given, else None
\* (<< >>); the cls of the model returns the pipeline response it is given
get_long_running_output(cls, pipeline_response) ==
    IF cls # "None" THEN pipeline_response ELSE << >>

\* Faulty variant: a resumed poller is built without the callback.
deserialization_callback_fresh_only(call) ==
    IF call.handle.origin = "resumed" THEN << >>
    ELSE get_long_running_output(call.cls, call.handle.final)

\* lines 138 and 140: both pollers are given get_long_running_output, which
\* closes over the cls of the call that built the poller
deserialization_callback(call) ==
    get_long_running_output(call.cls, call.handle.final)

\* Python truthiness of the continuation_token string, line 133
Truthy(cont_token) == cont_token.kind \notin {"None", "Empty"}

\* Faulty variant: the initial request is sent whenever the token is falsy.
IsNone_falsy(cont_token) == ~Truthy(cont_token)

\* line 113: `if cont_token is None`
IsNone(cont_token) == cont_token.kind = "None"

(***************************************************************************)
(* The poller, modelled from spec.md section 4.1.                          *)
(***************************************************************************)
TerminalStatuses == {"Succeeded", "Failed", "Canceled"}

\* what the service answers a poll with: a status (Running carries an
\* optional Retry-After header), a transport failure, a rejected status code
PollFailures == {"TransportError", "HttpError"}
PollResponses ==
    {[kind |-> "Running", retry_after |-> r] : r \in RetryAfterValues}
    \cup {[kind |-> k, retry_after |-> << >>] :
              k \in TerminalStatuses \cup PollFailures}

\* "Initial state: InProgress once submit returns an accepted async status,
\* or directly Succeeded/Failed if the service responded synchronously"
InitialStatus(status_code) ==
    IF status_code = 202 THEN "InProgress" ELSE "Succeeded"

\* the handle a fresh submit gives
AsyncLROPoller(c, status_code, method) ==
    [NoHandle EXCEPT !.status = InitialStatus(status_code),
                     !.polling_method = method,
                     !.op = c, !.pos = 0,
                     !.final = IF status_code = 202 THEN << >> ELSE <<c, 0>>,
                     !.origin = "fresh"]

\* Faulty variant: a resumed handle forgets the status the token recorded.
from_continuation_token_restart(cont_token, method) ==
    [NoHandle EXCEPT !.status = "InProgress",
                     !.polling_method = method,
                     !.op = cont_token.op, !.pos = cont_token.pos,
                     !.origin = "resumed"]

\* resume: the handle has the operation, the polls seen and the last status
\* that the token externalizes
from_continuation_token(cont_token, method) ==
    [NoHandle EXCEPT !.status = cont_token.status,
                     !.polling_method = method,
                     !.op = cont_token.op, !.pos = cont_token.pos,
                     !.final = IF cont_token.status = "Succeeded"
                               THEN <<cont_token.op, cont_token.pos>> ELSE << >>,
                     !.origin = "resumed"]

\* the token of a handle
continuation_token(h) ==
    [kind |-> "Valid", op |-> h.op, pos |-> h.pos, status |-> h.status]

\* Faulty variant: a terminal handle is polled again.
CanPoll_terminal(h) ==
    /\ h.status # "NoHandle"
    /\ h.polling_method.kind # "AsyncNoPolling"
    /\ h.wait = 0

\* poll takes a non-terminal handle, of a strategy that polls, once the
\* delay the last poll set has passed
CanPoll(h) ==
    /\ h.status = "InProgress"
    /\ h.polling_method.kind # "AsyncNoPolling"
    /\ h.wait = 0

\* Faulty variant: the Retry-After header is ignored.
NextDelay_no_header(method, retry_after) == method.timeout

\* "If the response includes a Retry-After header, honor it as the minimum
\* delay before the next poll is allowed; otherwise use a fixed default"
NextDelay(method, retry_after) ==
    IF retry_after # << >> THEN retry_after[1] ELSE method.timeout

\* the status a poll response reports
MapStatus(kind) == IF kind = "Running" THEN "InProgress" ELSE kind

\* Faulty variant: a failed poll marks the handle Failed.
poll_fails_handle(h, resp) ==
    IF resp.kind \in PollFailures
    THEN [h EXCEPT !.pos = @ + 1, !.lastOutcome = "RequestFailed",
                   !.status = "Failed", !.waiting = FALSE]
    ELSE [h EXCEPT !.status = MapStatus(resp.kind), !.pos = @ + 1,
                   !.lastOutcome = "ok",
                   !.waiting = IF resp.kind = "Running" THEN @ ELSE FALSE]

\* poll: a failure surfaces as RequestFailed and leaves the status; an answer
\* sets the status, counts the poll and sets the delay of the next one
poll(h, resp) ==
    IF resp.kind \in PollFailures
    THEN [h EXCEPT !.pos = @ + 1, !.lastOutcome = "RequestFailed",
                   !.waiting = FALSE]
    ELSE [h EXCEPT !.status = MapStatus(resp.kind),
                   !.pos = @ + 1,
                   !.final = IF resp.kind = "Succeeded" THEN <<h.op, h.pos + 1>> ELSE @,
                   !.lastOutcome = "ok",
                   !.waiting = IF resp.kind = "Running" THEN @ ELSE FALSE,
                   !.wait = IF resp.kind = "Running"
                            THEN NextDelay(h.polling_method, resp.retry_after)
                            ELSE 0]

\* Faulty variant: result hands out the payload of a handle still InProgress.
result_early(h, payload) ==
    IF h.status \in {"InProgress", "Succeeded"}
    THEN [outcome |-> "Payload", value |-> payload, at |-> h.status]
    ELSE [outcome |-> "OperationFailed", value |-> << >>, at |-> h.status]

\* result: the payload of a Succeeded handle, OperationFailed for a Failed or
\* Canceled one, OperationNotComplete for a non-terminal one
result(h, payload) ==
    IF h.status = "Succeeded"
    THEN [outcome |-> "Payload", value |-> payload, at |-> h.status]
    ELSE IF h.status = "InProgress"
    THEN [outcome |-> "OperationNotComplete", value |-> << >>, at |-> h.status]
    ELSE [outcome |-> "OperationFailed", value |-> << >>, at |-> h.status]

\* the handle of operation op after the first k poll responses of the
\* operation, polled from its creation
RECURSIVE HandleAfter(_, _, _, _)
HandleAfter(op, status_code, log, k) ==
    IF k = 0
    THEN AsyncLROPoller(op, status_code, [kind |-> "", timeout |-> 0])
    ELSE poll(HandleAfter(op, status_code, log, k - 1), log[k])

\* the continuation tokens the handles of the accepted operations have had:
\* one after each poll response seen so far
TokensProduced(cs, log) ==
    UNION {{continuation_token(HandleAfter(op, cs[op].status_code[1], log[op], k)) :
                k \in 0..Len(log[op])} :
           op \in {c \in Slots : cs[c].pc = "handle" /\ cs[c].handle.origin = "fresh"}}

\* lines 133-140: the poller begin_upgrade_extensions returns, or the error
\* it ends with. raw_result is << >> when line 114 did not run (the name is
\* then unbound), <<status_code>> when it did. The keywords that the poller
\* does not hold (error_map) are gone when the call has returned; a call
\* that raised holds no keyword but the error_map its error came from.
Poller(c, call, raw_result) ==
    LET method == polling_method(call.polling, lro_delay(call.polling_interval))
        failed == [IdleCall EXCEPT !.pc = "failed", !.posts = call.posts,
                                   !.cont_token = call.cont_token]
        built == [call EXCEPT !.pc = "handle", !.override = << >>,
                              !.error_map = << >>]
    IN  IF Truthy(call.cont_token)
        THEN IF call.cont_token.kind = "Garbage"
             THEN [failed EXCEPT !.error.kind = "InvalidContinuationToken"]
             ELSE [built EXCEPT
                      !.handle = from_continuation_token(call.cont_token, method)]
        ELSE IF raw_result = << >>
             THEN [failed EXCEPT !.error.kind = "UnboundLocalError"]
             ELSE [built EXCEPT
                      !.handle = AsyncLROPoller(c, raw_result[1], method)]

(***************************************************************************)
(* azext_aks_preview/azuremonitormetrics/helper.py                         *)
(*   rp_registrations, post_request, check_azuremonitormetrics_profile     *)
(***************************************************************************)
\* number of entries of the provider listing the service returns
MaxListing == 3
\* number of clusters check_azuremonitormetrics_profile is called for
MaxClusters == 2

Clusters == 1..MaxClusters

\* namespaces and registration states as the service may spell them
ListedNamespaces ==
    {"Microsoft.Insights", "microsoft.alertsmanagement", "Microsoft.Monitor",
     "microsoft.dashboard", "Microsoft.Compute"}
RegistrationStates == {"Registered", "registered", "NotRegistered"}

\* str.lower() on the strings of the model
lower(s) ==
    CASE s = "Microsoft.Insights" -> "microsoft.insights"
      [] s = "Microsoft.Monitor" -> "microsoft.monitor"
      [] s = "Microsoft.Compute" -> "microsoft.compute"
      [] s = "Registered" -> "registered"
      [] s = "NotRegistered" -> "notregistered"
      [] s = "EastUS" -> "eastus"
      [] s = "T" -> "t"
      [] s = "Z" -> "z"
      [] s = "A" -> "a"
      [] OTHER -> s

\* json_response["value"] of the listing GET (line 55)
RECURSIVE SeqsUpTo(_, _)
SeqsUpTo(S, n) ==
    IF n = 0 THEN {<< >>}
    ELSE LET shorter == SeqsUpTo(S, n - 1)
         IN  shorter \cup {Append(s, x) : s \in {t \in shorter : Len(t) = n - 1}, x \in S}

ProviderListings ==
    SeqsUpTo([namespace : ListedNamespaces, registrationState : RegistrationStates],
             MaxListing)

\* lines 50-53
NoFlags ==
    [isInsightsRpRegistered |-> FALSE, isAlertsManagementRpRegistered |-> FALSE,
     isMoniotrRpRegistered |-> FALSE, isDashboardRpRegistered |-> FALSE]

\* Faulty variant: each of the four checks sets the flag of its own namespace.
FlagsAfterValue_own_flag(flags, value) ==
    LET registered == lower(value.registrationState) = "registered"
        ns == lower(value.namespace)
    IN  [isInsightsRpRegistered |->
             flags.isInsightsRpRegistered \/ (ns = "microsoft.insights" /\ registered),
         isAlertsManagementRpRegistered |->
             flags.isAlertsManagementRpRegistered
                 \/ (ns = "microsoft.alertsmanagement" /\ registered),
         isMoniotrRpRegistered |->
             flags.isMoniotrRpRegistered \/ (ns = "microsoft.monitor" /\ registered),
         isDashboardRpRegistered |->
             flags.isDashboardRpRegistered \/ (ns = "microsoft.dashboard" /\ registered)]

\* lines 57-76: the body of the loop, for one entry of the listing
FlagsAfterValue(flags, value) ==
    LET registered == lower(value.registrationState) = "registered"
        ns == lower(value.namespace)
        f1 == IF ns = "microsoft.insights" /\ registered
              THEN [flags EXCEPT !.isInsightsRpRegistered = TRUE] ELSE flags
        f2 == IF ns = "microsoft.alertsmanagement" /\ registered
              THEN [f1 EXCEPT !.isAlertsManagementRpRegistered = TRUE] ELSE f1
        f3 == IF ns = "microsoft.monitor" /\ registered
              THEN [f2 EXCEPT !.isAlertsManagementRpRegistered = TRUE] ELSE f2
        f4 == IF ns = "microsoft.dashboard" /\ registered
              THEN [f3 EXCEPT !.isAlertsManagementRpRegistered = TRUE] ELSE f3
    IN  f4

\* lines 56-76: the loop over values_array
RECURSIVE FlagsAfter(_, _)
FlagsAfter(flags, values_array) ==
    IF values_array = << >> THEN flags
    ELSE FlagsAfter(FlagsAfterValue(flags, Head(values_array)), Tail(values_array))

\* lines 77-88: the four registrations, in the order of the code
RequiredRps ==
    <<"microsoft.insights", "microsoft.alertsmanagement", "microsoft.monitor",
      "microsoft.dashboard">>

\* the flag tested before the registration at position i (lines 77, 80, 83, 86)
FlagTested(flags, i) ==
    CASE i = 1 -> flags.isInsightsRpRegistered
      [] i = 2 -> flags.isAlertsManagementRpRegistered
      [] i = 3 -> flags.isMoniotrRpRegistered
      [] i = 4 -> flags.isDashboardRpRegistered

\* one run of rp_registrations: position, the listing, the flags, the next
\* registration to consider, the POSTs sent (namespace, whether it succeeded)
\* and the error that ended the run
IdleRp ==
    [pc |-> "idle", values_array |-> << >>, flags |-> NoFlags, step |-> 1,
     posts |-> << >>, error |-> ""]

\* lines 77-88: after the registration at position r.step, go on to the next
NextRegistration(r) ==
    IF r.step = Len(RequiredRps) THEN [r EXCEPT !.pc = "returned"]
    ELSE [r EXCEPT !.step = @ + 1]

\* Faulty variant: a failed POST is swallowed and the pass goes on.
post_request_isolated(r, rp_name, ok) ==
    NextRegistration([r EXCEPT !.posts = Append(@, [rp_name |-> rp_name, ok |-> ok])])

\* lines 25-34 post_request, called from lines 79, 82, 85, 88
post_request(r, rp_name, ok) ==
    LET sent == [r EXCEPT !.posts = Append(@, [rp_name |-> rp_name, ok |-> ok])]
    IN  IF ok THEN NextRegistration(sent)
        ELSE [sent EXCEPT !.pc = "raised", !.error = "CLIError"]

\* a JSON object with no key
EmptyDict == [k \in {} |-> << >>]

\* values of "enabled": JSON true, false, null, and the string "true"
EnabledValues == {"true", "false", "null", "\"true\""}

\* the cluster resource the GET of line 100 may return; addonProfiles is a
\* key of properties that the function does not look at
MetricsDicts == {EmptyDict} \cup {("enabled" :> v) : v \in EnabledValues}
AzureMonitorProfileDicts == {EmptyDict} \cup {("metrics" :> m) : m \in MetricsDicts}
PropertiesDicts ==
    LET profiles == {EmptyDict} \cup
            {("azureMonitorProfile" :> p) : p \in AzureMonitorProfileDicts}
    IN  profiles \cup {d @@ ("addonProfiles" :> EmptyDict) : d \in profiles}
ClusterResponses == {EmptyDict} \cup {("properties" :> p) : p \in PropertiesDicts}

\* one call of check_azuremonitormetrics_profile
IdleProbe == [pc |-> "idle", json_response |-> EmptyDict, value |-> "", error |-> ""]

\* lines 104-110
check_azuremonitormetrics_profile(json_response) ==
    IF "properties" \notin DOMAIN json_response
    THEN [IdleProbe EXCEPT !.pc = "raised", !.json_response = json_response,
                           !.error = "KeyError"]
    ELSE LET values_array == json_response["properties"]
             done == [IdleProbe EXCEPT !.pc = "returned",
                                       !.json_response = json_response]
         IN  IF "azureMonitorProfile" \in DOMAIN values_array
             THEN IF "metrics" \in DOMAIN values_array["azureMonitorProfile"]
                  THEN IF "enabled" \notin
                              DOMAIN values_array["azureMonitorProfile"]["metrics"]
                       THEN [done EXCEPT !.pc = "raised", !.error = "KeyError"]
                       ELSE IF values_array["azureMonitorProfile"]["metrics"]["enabled"]
                                  = "true"
                            THEN [done EXCEPT !.value = "True"]
                            ELSE [done EXCEPT !.value = "False"]
                  ELSE [done EXCEPT !.value = "False"]
             ELSE [done EXCEPT !.value = "False"]

(***************************************************************************)
(* azext_load/data_plane/utils/validators.py                               *)
(* A str is a sequence of fragments (pieces of text that the validators    *)
(* never cut); a value of the parsed-arguments record carries its Python   *)
(* type: None, str, int, list (of str, or of dict entries) or dict.        *)
(***************************************************************************)
\* number of items of a list argument
MaxItems == 2

PyNone == [t |-> "None", v |-> << >>]
PyStr(s) == [t |-> "str", v |-> s]
PyList(items) == [t |-> "list", v |-> items]
PyDict(d) == [t |-> "dict", v |-> d]
PyInt(n) == [t |-> "int", v |-> n]
PyBool(b) == [t |-> "bool", v |-> b]

\* string.split("=", 1)
RECURSIVE Find(_, _, _)
Find(string, sep, i) ==
    IF i > Len(string) THEN 0
    ELSE IF string[i] = sep THEN i ELSE Find(string, sep, i + 1)

split1(string, sep) ==
    LET i == Find(string, sep, 1)
    IN  IF i = 0 THEN <<string>>
        ELSE <<SubSeq(string, 1, i - 1), SubSeq(string, i + 1, Len(string))>>

\* str.strip()
RECURSIVE lstrip(_)
lstrip(string) ==
    IF string # << >> /\ Head(string) = " " THEN lstrip(Tail(string)) ELSE string

RECURSIVE rstrip(_)
rstrip(string) ==
    IF string # << >> /\ string[Len(string)] = " "
    THEN rstrip(SubSeq(string, 1, Len(string) - 1)) ELSE string

strip(string) == rstrip(lstrip(string))

\* str.lower() of a str, fragment by fragment
lower_str(string) == [i \in DOMAIN string |-> lower(string[i])]

\* Faulty variant: an empty right-hand side is kept as the empty string.
_validate_env_var_keep_empty(string) ==
    IF string = << >> THEN [raised |-> "", result |-> EmptyDict]
    ELSE LET comps == split1(string, "=")
         IN  IF Len(comps) # 2
             THEN [raised |-> "InvalidArgumentValueError", result |-> EmptyDict]
             ELSE IF comps[2] = <<"null">>
                  THEN [raised |-> "", result |-> (comps[1] :> PyNone)]
                  ELSE [raised |-> "", result |-> (comps[1] :> PyStr(comps[2]))]

\* lines 71-82: the dict of one item, or the error raised
_validate_env_var(string) ==
    IF string = << >> THEN [raised |-> "", result |-> EmptyDict]
    ELSE LET comps == split1(string, "=")
         IN  IF Len(comps) # 2
             THEN [raised |-> "InvalidArgumentValueError", result |-> EmptyDict]
             ELSE IF comps[2] \in {<<"null">>, << >>}
                  THEN [raised |-> "", result |-> (comps[1] :> PyNone)]
                  ELSE [raised |-> "", result |-> (comps[1] :> PyStr(comps[2]))]

\* lines 65-67: the loop of validate_env_vars over the items from position i
RECURSIVE env_vars_dict(_, _, _)
env_vars_dict(items, i, dict) ==
    IF i > Len(items) THEN [raised |-> "", result |-> dict]
    ELSE LET one == _validate_env_var(items[i])
         IN  IF one.raised # "" THEN [raised |-> one.raised, result |-> dict]
             ELSE env_vars_dict(items, i + 1, one.result @@ dict)

\* lines 62-68
validate_env_vars(ns) ==
    IF ns.env.t = "list"
    THEN LET loop == env_vars_dict(ns.env.v, 1, EmptyDict)
         IN  IF loop.raised # "" THEN [namespace |-> ns, raised |-> loop.raised]
             ELSE [namespace |-> [ns EXCEPT !.env = PyDict(loop.result)], raised |-> ""]
    ELSE [namespace |-> ns, raised |-> ""]

\* get_subscription_locations (line 523): the names of the locations
location_names == {<<"eastus">>, <<"westus">>}

\* int(text): the texts that int() accepts, and their values
IntTexts == {<<"3">>, <<"-", "3">>}
int(text) == IF text = <<"3">> THEN 3 ELSE 0 - 3

\* Faulty variant: the region is stored as it was typed.
regionwise_entry_as_typed(key, value) ==
    [region |-> key, engineInstances |-> int(strip(value))]

\* line 545: the entry appended for an item that passed the checks
regionwise_entry(key, value) ==
    [region |-> lower_str(strip(key)), engineInstances |-> int(strip(value))]

\* lines 525-545: the loop of validate_regionwise_engines from position i
RECURSIVE regionwise_engines(_, _, _)
regionwise_engines(items, i, entries) ==
    IF i > Len(items) THEN [raised |-> "", result |-> entries]
    ELSE LET item == items[i]
             comps == split1(item, "=")
             failed == [raised |-> "InvalidArgumentValueError", result |-> entries]
         IN  IF Len(comps) # 2 THEN failed
             ELSE IF comps[1] = << >> \/ comps[2] = << >> THEN failed
             ELSE IF lower_str(strip(comps[1])) \notin location_names THEN failed
             ELSE IF strip(comps[2]) \notin IntTexts THEN failed
             ELSE regionwise_engines(items, i + 1,
                      Append(entries, regionwise_entry(comps[1], comps[2])))

\* lines 514-546
validate_regionwise_engines(ns) ==
    IF ns.regionwise_engines.t = "None" THEN [namespace |-> ns, raised |-> ""]
    ELSE IF ns.regionwise_engines.t # "list"
    THEN [namespace |-> ns, raised |-> "InvalidArgumentValueError"]
    ELSE LET loop == regionwise_engines(ns.regionwise_engines.v, 1, << >>)
         IN  IF loop.raised # "" THEN [namespace |-> ns, raised |-> loop.raised]
             ELSE [namespace |-> [ns EXCEPT !.regionwise_engines = PyList(loop.result)],
                   raised |-> ""]

\* the number of digits of a fragment made of digits (0 for another one)
Width(text) ==
    CASE text \in {"0", "1", "5"} -> 1
      [] text \in {"00", "01", "02", "13", "24", "30", "60"} -> 2
      [] text = "2024" -> 4
      [] text = "123456" -> 6
      [] text = "1234567" -> 7
      [] OTHER -> 0

\* the number a fragment made of digits denotes
Value(text) ==
    CASE text \in {"0", "00"} -> 0
      [] text \in {"1", "01"} -> 1
      [] text = "02" -> 2
      [] text = "5" -> 5
      [] text = "13" -> 13
      [] text = "24" -> 24
      [] text = "30" -> 30
      [] text = "60" -> 60
      [] text = "2024" -> 2024
      [] text = "123456" -> 123456
      [] text = "1234567" -> 1234567
      [] OTHER -> 0

\* the two formats of lines 323 and 328
FormatWithFraction ==
    <<"%Y", "-", "%m", "-", "%d", "T", "%H", ":", "%M", ":", "%S", ".", "%f", "Z">>
FormatWithoutFraction ==
    <<"%Y", "-", "%m", "-", "%d", "T", "%H", ":", "%M", ":", "%S", "Z">>

\* datetime.strptime: the text a directive of the format matches (a field
\* may lack its leading zero, %f takes one to six digits, and the letters of
\* the format match in either case)
Matches(text, directive) ==
    LET w == Width(text)
        n == Value(text)
    IN  CASE directive = "%Y" -> w = 4
          [] directive = "%m" -> (w = 2 /\ n >= 1 /\ n <= 12) \/ (w = 1 /\ n >= 1)
          [] directive = "%d" -> (w = 2 /\ n >= 1 /\ n <= 31) \/ (w = 1 /\ n >= 1)
          [] directive = "%H" -> (w = 2 /\ n <= 23) \/ w = 1
          [] directive = "%M" -> (w = 2 /\ n <= 59) \/ w = 1
          [] directive = "%S" -> (w = 2 /\ n <= 61) \/ w = 1
          [] directive = "%f" -> w >= 1 /\ w <= 6
          [] OTHER -> lower(text) = lower(directive)

DaysInMonth(year, month) ==
    IF month = 2
    THEN IF year % 4 = 0 /\ (year % 100 # 0 \/ year % 400 = 0) THEN 29 ELSE 28
    ELSE IF month \in {4, 6, 9, 11} THEN 30 ELSE 31

\* datetime.strptime(string, format) returns (TRUE) or raises ValueError
\* (FALSE): the string matches the format, and the fields make a datetime
strptime(string, format) ==
    /\ Len(string) = Len(format)
    /\ \A i \in DOMAIN format : Matches(string[i], format[i])
    /\ Value(string[1]) >= 1
    /\ Value(string[5]) <= DaysInMonth(Value(string[1]), Value(string[3]))
    /\ Value(string[11]) <= 59

\* Faulty variant: only the format with a fraction is tried.
_validate_iso_time_fraction_only(string) ==
    IF string.t = "None" THEN ""
    ELSE IF string.t # "str" THEN "InvalidArgumentValueError"
    ELSE IF strptime(string.v, FormatWithFraction) THEN ""
    ELSE "InvalidArgumentValueError"

\* lines 317-334: the error raised, "" when the function returns
_validate_iso_time(string) ==
    IF string.t = "None" THEN ""
    ELSE IF string.t # "str" THEN "InvalidArgumentValueError"
    ELSE IF strptime(string.v, FormatWithFraction) THEN ""
    ELSE IF strptime(string.v, FormatWithoutFraction) THEN ""
    ELSE "InvalidArgumentValueError"

\* lines 309-310
validate_start_iso_time(ns) ==
    [namespace |-> ns, raised |-> _validate_iso_time(ns.start_time)]

\* lines 313-314
validate_end_iso_time(ns) ==
    [namespace |-> ns, raised |-> _validate_iso_time(ns.end_time)]

\* A path is the sequence of its components; "/" as first component is the
\* root.  os.path.expanduser: a leading ~ is the home directory
expanduser(path) ==
    IF path # << >> /\ Head(path) = "~"
    THEN <<"/", "home", "user">> \o Tail(path)
    ELSE path

\* os.path.normpath: "." is dropped, ".." takes back the component before it
RECURSIVE normparts(_, _)
normparts(path, done) ==
    IF path = << >> THEN done
    ELSE LET comp == Head(path)
             last == IF done = << >> THEN "" ELSE done[Len(done)]
         IN  IF comp = "." THEN normparts(Tail(path), done)
             ELSE IF comp # ".." THEN normparts(Tail(path), Append(done, comp))
             ELSE IF last = "/" THEN normparts(Tail(path), done)
             ELSE IF last \in {"", ".."} THEN normparts(Tail(path), Append(done, comp))
             ELSE normparts(Tail(path), SubSeq(done, 1, Len(done) - 1))

normpath(path) ==
    LET done == normparts(path, << >>)
    IN  IF done = << >> THEN <<".">> ELSE done

\* the file system the validators look at: directories and files
Directories == {<<".">>, <<"..">>, <<"out">>, <<"/", "home", "user">>, <<"/", "home">>}
YamlFiles == {<<"config.yaml">>, <<"/", "home", "user", "config.yaml">>}
Files ==
    YamlFiles \cup
    {<<"plan.jmx">>, <<"plan.txt">>, <<"broken.yaml">>, <<"out", "plan.jmx">>,
     <<"/", "home", "user", "plan.jmx">>, <<"/", "home", "user", "plan.txt">>}

\* os.path.splitext(path)[1].casefold()
file_extension(path) ==
    LET name == path[Len(path)]
    IN  CASE name = "plan.jmx" -> ".jmx"
          [] name = "plan.txt" -> ".txt"
          [] name \in {"config.yaml", "broken.yaml"} -> ".yaml"
          [] OTHER -> ""

\* utils.get_enum_values(AllowedTestPlanFileExtensions) (line 241); the enum
\* is imported from .models (line 24)
AllowedTestPlanFileExtensions == {".jmx", ".py"}

\* lines 263-286; every existing path is accessible
_validate_path(path, is_dir) ==
    IF path.t # "str" THEN [raised |-> "InvalidArgumentValueError", path |-> path]
    ELSE LET norm == normpath(expanduser(path.v))
             failed == [raised |-> "InvalidArgumentValueError", path |-> path]
         IN  IF norm \notin Directories \cup Files THEN failed
             ELSE IF is_dir /\ norm \notin Directories THEN failed
             ELSE IF ~is_dir /\ norm \notin Files THEN failed
             ELSE [raised |-> "", path |-> PyStr(norm)]

\* lines 227-228
validate_dir_path(ns) ==
    LET checked == _validate_path(ns.path, TRUE)
    IN  IF checked.raised # "" THEN [namespace |-> ns, raised |-> checked.raised]
        ELSE [namespace |-> [ns EXCEPT !.path = checked.path], raised |-> ""]

\* lines 190-205; os.makedirs(exist_ok=True) raises on an existing file
validate_download(ns) ==
    IF ns.path.t # "str" THEN [namespace |-> ns, raised |-> "InvalidArgumentValueError"]
    ELSE LET normalized == [ns EXCEPT !.path = PyStr(normpath(expanduser(ns.path.v)))]
         IN  IF ns.force.v
             THEN [namespace |-> normalized,
                   raised |-> IF normalized.path.v \in Files
                              THEN "FileExistsError" ELSE ""]
             ELSE validate_dir_path(normalized)

\* lines 208-224
validate_load_test_config_file(ns) ==
    IF ns.load_test_config_file.t = "None" THEN [namespace |-> ns, raised |-> ""]
    ELSE IF ns.load_test_config_file.t # "str"
    THEN [namespace |-> ns, raised |-> "InvalidArgumentValueError"]
    ELSE LET checked == _validate_path(ns.load_test_config_file, FALSE)
             assigned == [ns EXCEPT !.load_test_config_file = checked.path]
         IN  IF checked.raised # "" THEN [namespace |-> ns, raised |-> checked.raised]
             ELSE IF checked.path.v \notin YamlFiles
             THEN [namespace |-> assigned, raised |-> "FileOperationError"]
             ELSE [namespace |-> assigned, raised |-> ""]

\* lines 235-246
validate_test_plan_path(ns) ==
    IF ns.test_plan.t = "None" THEN [namespace |-> ns, raised |-> ""]
    ELSE LET checked == _validate_path(ns.test_plan, FALSE)
             assigned == [ns EXCEPT !.test_plan = checked.path]
         IN  IF checked.raised # "" THEN [namespace |-> ns, raised |-> checked.raised]
             ELSE IF file_extension(checked.path.v) \notin AllowedTestPlanFileExtensions
             THEN [namespace |-> assigned, raised |-> "InvalidArgumentValueError"]
             ELSE [namespace |-> assigned, raised |-> ""]

\* number of events of --event and --add-event
MaxEvents == 2

\* the fragments that [\w-]+ takes, and those that [\w,-]+ takes
IsWord(text) == text \notin {"=", ",", " "}
IsValueText(text) == text # "=" /\ text # " "

\* the end of the run of [\w,-]+ that starts at position j
RECURSIVE ValueEnd(_, _)
ValueEnd(part, j) ==
    IF j < Len(part) /\ IsValueText(part[j + 1]) THEN ValueEnd(part, j + 1) ELSE j

\* pattern.findall(part) (lines 701 and 712), searching from position i: the
\* key=value pairs, a key being one fragment
RECURSIVE findall(_, _)
findall(part, i) ==
    IF i + 2 > Len(part) THEN << >>
    ELSE IF IsWord(part[i]) /\ part[i + 1] = "=" /\ IsValueText(part[i + 2])
         THEN LET j == ValueEnd(part, i + 2)
              IN  <<[key |-> <<part[i]>>, value |-> SubSeq(part, i + 2, j)]>>
                      \o findall(part, j + 1)
         ELSE findall(part, i + 1)

\* string.split(",")
RECURSIVE split(_, _)
split(string, sep) ==
    LET i == Find(string, sep, 1)
    IN  IF i = 0 THEN <<string>>
        ELSE <<SubSeq(string, 1, i - 1)>>
                 \o split(SubSeq(string, i + 1, Len(string)), sep)

\* the values of the enums imported at line 16
NotificationEventType ==
    {<<"TestRunEnded">>, <<"TestRunStarted">>, <<"TriggerCompleted">>,
     <<"TriggerDisabled">>}
TEST_RUN_ENDED == <<"TestRunEnded">>
TestRunStatus == {<<"DONE">>, <<"FAILED">>, <<"CANCELLED">>}
PassFailTestResult == {<<"PASSED">>, <<"FAILED">>, <<"NOT_APPLICABLE">>}

\* lines 632-687: the error raised and the event as the function leaves it
_validate_notification_event(event) ==
    LET keys == DOMAIN event
        failed == [raised |-> "InvalidArgumentValueError", event |-> event]
        statuses == split(event[<<"status">>].v, ",")
        results == split(event[<<"result">>].v, ",")
        with_status == IF <<"status">> \in keys
                       THEN [event EXCEPT ![<<"status">>] = PyList(statuses)]
                       ELSE event
        with_result == IF <<"result">> \in keys
                       THEN [with_status EXCEPT ![<<"result">>] = PyList(results)]
                       ELSE with_status
    IN  IF ~({<<"event-id">>, <<"type">>} \subseteq keys) THEN failed
        ELSE IF ~(keys \subseteq
                    {<<"event-id">>, <<"type">>, <<"status">>, <<"result">>})
        THEN failed
        ELSE IF event[<<"type">>].v \notin NotificationEventType THEN failed
        ELSE IF event[<<"type">>].v = TEST_RUN_ENDED
        THEN IF <<"status">> \in keys
                  /\ \E k \in DOMAIN statuses : statuses[k] \notin TestRunStatus
             THEN failed
             ELSE IF <<"result">> \in keys
                       /\ \E k \in DOMAIN results : results[k] \notin PassFailTestResult
             THEN [raised |-> "InvalidArgumentValueError", event |-> with_status]
             ELSE [raised |-> "", event |-> with_result]
        ELSE IF <<"status">> \in keys \/ <<"result">> \in keys THEN failed
        ELSE [raised |-> "", event |-> event]

\* lines 718-719: the pairs of one part put into event_dict, a later one
\* replacing an earlier one with the same key
RECURSIVE with_matches(_, _, _)
with_matches(event_dict, matches, k) ==
    IF k > Len(matches) THEN event_dict
    ELSE with_matches((matches[k].key :> PyStr(matches[k].value)) @@ event_dict,
                      matches, k + 1)

\* lines 711-719: the loop over the parts of one event from position k
RECURSIVE event_dict_of(_, _, _)
event_dict_of(event_parts, k, event_dict) ==
    IF k > Len(event_parts) THEN [raised |-> "", event |-> event_dict]
    ELSE LET matches == findall(event_parts[k], 1)
         IN  IF matches = << >>
             THEN [raised |-> "InvalidArgumentValueError", event |-> event_dict]
             ELSE event_dict_of(event_parts, k + 1,
                                with_matches(event_dict, matches, 1))

\* Faulty variant: an event-id that is already there is not noticed.
is_duplicate_never(parsed_events, event_dict) == FALSE

\* lines 726-729
is_duplicate(parsed_events, event_dict) ==
    \E k \in DOMAIN parsed_events :
        /\ <<"event-id">> \in DOMAIN parsed_events[k].v
        /\ parsed_events[k].v[<<"event-id">>] = event_dict[<<"event-id">>]

\* lines 703-735: the loop over event_list from position i
RECURSIVE parsed_events_of(_, _, _)
parsed_events_of(event_list, i, parsed_events) ==
    IF i > Len(event_list) THEN [raised |-> "", result |-> PyList(parsed_events)]
    ELSE LET event_group == event_list[i]
             event_parts == IF event_group.t = "list" THEN event_group.v
                            ELSE <<event_group.v>>
             built == event_dict_of(event_parts, 1, EmptyDict)
             checked == _validate_notification_event(built.event)
             failed == [raised |-> "InvalidArgumentValueError", result |-> PyNone]
         IN  IF built.raised # "" THEN failed
             ELSE IF checked.raised # "" THEN failed
             ELSE IF is_duplicate(parsed_events, checked.event) THEN failed
             ELSE parsed_events_of(event_list, i + 1,
                                   Append(parsed_events, PyDict(checked.event)))

\* lines 690-739
_validate_notification_event_list(event_list) ==
    IF event_list.t = "None" THEN [raised |-> "", result |-> PyNone]
    ELSE IF event_list.t # "list"
    THEN [raised |-> "InvalidArgumentValueError", result |-> PyNone]
    ELSE parsed_events_of(event_list.v, 1, << >>)

\* lines 742-744
validate_add_event(ns) ==
    LET out == _validate_notification_event_list(ns.add_event)
    IN  IF out.raised # "" THEN [namespace |-> ns, raised |-> out.raised]
        ELSE [namespace |-> [ns EXCEPT !.add_event = out.result], raised |-> ""]

\* lines 747-749
validate_event(ns) ==
    LET out == _validate_notification_event_list(ns.event)
    IN  IF out.raised # "" THEN [namespace |-> ns, raised |-> out.raised]
        ELSE [namespace |-> [ns EXCEPT !.event = out.result], raised |-> ""]

\* bound of the dimension filter model: the longest list of --dimension-filters
MaxFilters == 3

\* lines 381-387: the dict of one item
_validate_dimension_filter(string) ==
    IF string = << >> THEN EmptyDict
    ELSE LET comps == split1(string, "=")
         IN  IF Len(comps) > 1 THEN (comps[1] :> comps[2])
             ELSE (string :> << >>)

\* the position of a key in the OrderedDict, kept as the sequence of its
\* items in insertion order; 0 when the key is not in it
RECURSIVE key_index(_, _, _)
key_index(filters_dict, key, i) ==
    IF i > Len(filters_dict) THEN 0
    ELSE IF filters_dict[i].key = key THEN i
    ELSE key_index(filters_dict, key, i + 1)

\* Faulty variant: a value given again for a key replaces the values so far.
filters_dict_with_last(filters_dict, key, value) ==
    LET i == key_index(filters_dict, key, 1)
    IN  IF i # 0
        THEN [filters_dict EXCEPT ![i].value = <<value>>]
        ELSE Append(filters_dict, [key |-> key, value |-> <<value>>])

\* lines 371-374
filters_dict_with(filters_dict, key, value) ==
    LET i == key_index(filters_dict, key, 1)
    IN  IF i # 0
        THEN [filters_dict EXCEPT ![i].value = Append(@, value)]
        ELSE Append(filters_dict, [key |-> key, value |-> <<value>>])

\* lines 368-374: the loop over the items from position i
RECURSIVE filters_dict_of(_, _, _)
filters_dict_of(items, i, filters_dict) ==
    IF i > Len(items) THEN filters_dict
    ELSE LET dimension_filter == _validate_dimension_filter(items[i])
         IN  IF DOMAIN dimension_filter = {}
             THEN filters_dict_of(items, i + 1, filters_dict)
             ELSE LET key == CHOOSE k \in DOMAIN dimension_filter : TRUE
                  IN  filters_dict_of(items, i + 1,
                          filters_dict_with(filters_dict, key, dimension_filter[key]))

\* lines 375-377
filters_list_of(filters_dict) ==
    [i \in DOMAIN filters_dict |->
        PyDict((<<"name">> :> PyStr(filters_dict[i].key))
               @@ (<<"values">> :>
                      PyList([j \in DOMAIN filters_dict[i].value |->
                                 PyStr(filters_dict[i].value[j])])))]

\* lines 364-378
validate_dimension_filters(ns) ==
    IF ns.dimension_filters.t = "list"
    THEN [namespace |->
             [ns EXCEPT !.dimension_filters =
                 PyList(filters_list_of(filters_dict_of(ns.dimension_filters.v, 1, << >>)))],
          raised |-> ""]
    ELSE [namespace |-> ns, raised |-> ""]

(***************************************************************************)
(* azext_aks_preview/azuremonitormetrics/helper.py                         *)
(*   sanitize_resource_id                                                  *)
(***************************************************************************)
\* bounds of the resource id model: the longest resource id, in characters,
\* and the number of times sanitize_resource_id is applied in a row
MaxIdLen == 4
MaxSanitize == 2

\* resource_id.rstrip("/")
RECURSIVE rstrip_slash(_)
rstrip_slash(string) ==
    IF string # << >> /\ string[Len(string)] = "/"
    THEN rstrip_slash(SubSeq(string, 1, Len(string) - 1)) ELSE string

startswith(string, prefix) == string # << >> /\ Head(string) = prefix
endswith(string, suffix) == string # << >> /\ string[Len(string)] = suffix

\* lines 16-22
sanitize_resource_id(resource_id) ==
    LET stripped == strip(resource_id)
        rooted == IF ~startswith(stripped, "/") THEN <<"/">> \o stripped
                  ELSE stripped
        trimmed == IF endswith(rooted, "/") THEN rstrip_slash(rooted) ELSE rooted
    IN  lower_str(trimmed)

\* no resource id has been given
NotSanitized == [given |-> << >>, values |-> << >>]

\* the resource ids, character by character
ResourceIdChars == {" ", "/", "A", "b"}
ResourceIds == SeqsUpTo(ResourceIdChars, MaxIdLen)

\* the parsed-arguments record when no argument is given
NoArguments ==
    [env |-> PyNone, regionwise_engines |-> PyNone, start_time |-> PyNone,
     end_time |-> PyNone, path |-> PyNone, force |-> PyBool(FALSE),
     test_plan |-> PyNone, load_test_config_file |-> PyNone,
     event |-> PyNone, add_event |-> PyNone, dimension_filters |-> PyNone]

\* no validator has been called
NotValidated == [called |-> "", raised |-> ""]

\* items of --env
EnvItems ==
    {k \o <<"=">> \o rhs :
        k \in {<<"KEY">>, <<"OTHER">>},
        rhs \in {<< >>, <<"null">>, <<"value">>, <<"a", "=", "b">>}}
    \cup {<< >>, <<"novalue">>, <<"=", "value">>}

\* items of --regionwise-engines
RegionItems ==
    {k \o <<"=">> \o count :
        k \in {<< >>, <<"EastUS">>, <<" ", "EastUS">>, <<"westus", " ">>,
               <<"mars">>, <<" ">>},
        count \in {<< >>, <<"3">>, <<" ", "3">>, <<"-", "3">>, <<"x">>,
                   <<"3", ".", "0">>}}
    \cup {<< >>, <<"EastUS">>}

\* values of --start-time and --end-time
Dates ==
    {<<y, "-", m, "-", d>> :
        y \in {"2024", "24"}, m \in {"01", "1", "02", "13"}, d \in {"01", "30"}}
TimesOfDay ==
    {<<"00", ":", "00", ":", "00">>, <<"0", ":", "0", ":", "0">>,
     <<"00", ":", "00", ":", "60">>}
Fractions == {<< >>, <<".", "123456">>, <<".", "5">>, <<".", "1234567">>}
TimeStrings ==
    Dates \cup
    {d \o <<sep>> \o tod \o f \o z :
        d \in Dates, sep \in {"T", "t"}, tod \in TimesOfDay, f \in Fractions,
        z \in {<<"Z">>, << >>}}
TimeValues == {PyNone, PyInt(5)} \cup {PyStr(s) : s \in TimeStrings}

\* values of --path, --test-plan and --load-test-config-file
PathComponents ==
    {".", "..", "~", "out", "plan.jmx", "plan.txt", "config.yaml", "broken.yaml",
     "missing"}
PathValues == {PyNone} \cup {PyStr(p) : p \in SeqsUpTo(PathComponents, 2)}

\* the parsed-arguments records: one argument given (--force beside --path)
ParsedNamespaces ==
    {[NoArguments EXCEPT !.env = PyList(l)] : l \in SeqsUpTo(EnvItems, MaxItems)}
    \cup {[NoArguments EXCEPT !.regionwise_engines = PyList(l)] :
             l \in SeqsUpTo(RegionItems, MaxItems)}
    \cup {[NoArguments EXCEPT !.regionwise_engines = PyStr(<<"EastUS", "=", "3">>)]}
    \cup {[NoArguments EXCEPT !.start_time = v] : v \in TimeValues}
    \cup {[NoArguments EXCEPT !.end_time = v] : v \in TimeValues}
    \cup {[NoArguments EXCEPT !.path = v, !.force = PyBool(b)] :
             v \in PathValues, b \in BOOLEAN}
    \cup {[NoArguments EXCEPT !.test_plan = v] : v \in PathValues}
    \cup {[NoArguments EXCEPT !.load_test_config_file = v] : v \in PathValues}

\* the parts of an event of --event
IdParts == {<<"event-id", "=", "e1">>, <<"event-id", "=", "e2">>}
TypeParts ==
    {<<"type", "=", "TestRunEnded">>, <<"type", "=", "TestRunStarted">>,
     <<"type", "=", "bogus">>}
StatusParts ==
    {<<"status", "=", "DONE">>, <<"status", "=", "DONE", ",", "FAILED">>,
     <<"status", "=", "bad">>}

\* one event: the list of its parts, or one string that holds them
EventGroups ==
    {PyList(<<id, type>>) : id \in IdParts, type \in TypeParts}
    \cup {PyList(<<id, type, status>>) :
             id \in IdParts, type \in TypeParts, status \in StatusParts}
    \cup {PyList(<<type>>) : type \in TypeParts}
    \cup {PyList(<<id, type, <<"junk">> >>) : id \in IdParts, type \in TypeParts}
    \cup {PyStr(id \o <<" ">> \o type) : id \in IdParts, type \in TypeParts}
    \cup {PyStr(id \o <<" ">> \o type \o <<" ">> \o status) :
             id \in IdParts, type \in TypeParts, status \in StatusParts}

EventLists == {PyList(l) : l \in SeqsUpTo(EventGroups, MaxEvents)}

\* the parsed-arguments records with --event or --add-event given
ParsedEvents ==
    {[NoArguments EXCEPT !.event = l] : l \in EventLists}
    \cup {[NoArguments EXCEPT !.add_event = l] : l \in EventLists}
    \cup {[NoArguments EXCEPT !.event = PyStr(<<"event-id", "=", "e1">>)]}

\* items of --dimension-filters
DimensionItems ==
    {<< >>, <<"K">>, <<"K", "=">>, <<"K", "=", "a">>, <<"K", "=", "b">>,
     <<"K", "=", "a", "=", "b">>, <<"J">>, <<"J", "=", "a">>, <<"=", "a">>}

\* the parsed-arguments records with --dimension-filters, or without it
ParsedFilters ==
    {[NoArguments EXCEPT !.dimension_filters = PyList(l)] :
        l \in SeqsUpTo(DimensionItems, MaxFilters)}
    \cup {NoArguments}

(***************************************************************************)
(* State machine.  Every action takes the sets its inputs are drawn from.  *)
(***************************************************************************)
Init ==
    /\ calls = [c \in Slots |-> IdleCall]
    /\ svcLog = [c \in Slots |-> << >>]
    /\ errorMapTable = DefaultErrorMap
    /\ rp = IdleRp
    /\ probe = [k \in Clusters |-> IdleProbe]
    /\ parsed = NoArguments
    /\ namespace = NoArguments
    /\ validated = NotValidated
    /\ sanitized = NotSanitized

\* begin_upgrade_extensions up to its first suspension point (lines 104-122,
\* and lines 35-58 of _upgrade_extensions_initial when no token is given), or
\* to its return (lines 123-140) when a token is given
Begin(c, In) ==
    /\ calls[c].pc = "idle"
    /\ \E polling \in In.polling, polling_interval \in In.polling_interval,
          cls \in In.cls, override \in In.error_map,
          cont_token \in {NoToken} \cup In.tokens \cup TokensProduced(calls, svcLog) :
          LET kw == [IdleCall EXCEPT !.polling = polling,
                                     !.polling_interval = polling_interval,
                                     !.cls = cls, !.override = override,
                                     !.cont_token = cont_token]
              error_map == update(errorMapTable, override)
          IN  IF IsNone(cont_token)
              THEN /\ calls' = [calls EXCEPT ![c] =
                            [kw EXCEPT !.pc = "awaiting", !.posts = 1,
                                       !.error_map = error_map]]
                   /\ errorMapTable' = ErrorMapTableAfterCall(errorMapTable, error_map)
              ELSE /\ calls' = [calls EXCEPT ![c] = Poller(c, kw, << >>)]
                   /\ UNCHANGED errorMapTable
    /\ UNCHANGED svcLog

\* the answer to the initial POST arrives: lines 63-70, then lines 123-140
InitialResponse(c, In) ==
    /\ calls[c].pc = "awaiting"
    /\ \E status_code \in In.status_code, code \in In.code :
          calls' = [calls EXCEPT ![c] =
              IF status_code \notin AcceptedStatusCodes
              THEN [IdleCall EXCEPT
                        !.pc = "failed",
                        !.posts = calls[c].posts,
                        !.override = calls[c].override,
                        !.status_code = <<status_code>>,
                        !.error = [kind |-> map_error(status_code, calls[c].error_map),
                                   code |-> code]]
              ELSE Poller(c, [calls[c] EXCEPT !.status_code = <<status_code>>],
                          <<status_code>>)]
    /\ UNCHANGED <<svcLog, errorMapTable>>

\* poll(handle): the response is the next one of the operation's sequence
Poll(c, In) ==
    /\ calls[c].pc = "handle"
    /\ CanPoll(calls[c].handle)
    /\ LET h == calls[c].handle
           seen == Len(svcLog[h.op])
       IN  \E resp \in In.responses :
              /\ h.pos < seen => resp = svcLog[h.op][h.pos + 1]
              /\ h.pos >= seen => seen < MaxPolls
              /\ svcLog' = IF h.pos < seen THEN svcLog
                           ELSE [svcLog EXCEPT ![h.op] = Append(@, resp)]
              /\ calls' = [calls EXCEPT ![c].handle = poll(h, resp)]
    /\ UNCHANGED errorMapTable

\* result(handle)
Result(c) ==
    /\ calls[c].pc = "handle"
    /\ calls' = [calls EXCEPT ![c].handle.result =
                    result(calls[c].handle, deserialization_callback(calls[c]))]
    /\ UNCHANGED <<svcLog, errorMapTable>>

\* waitForCompletion(handle, timeout) starts: its polls are Poll steps, and
\* it returns with the poll that reports a terminal status
WaitForCompletion(c) ==
    /\ calls[c].pc = "handle"
    /\ calls[c].handle.status = "InProgress"
    /\ ~calls[c].handle.waiting
    /\ calls' = [calls EXCEPT ![c].handle.waiting = TRUE]
    /\ UNCHANGED <<svcLog, errorMapTable>>

\* the deadline of a pending waitForCompletion passes while the handle is
\* still InProgress: it fails with Timeout
WaitTimeout(c) ==
    /\ calls[c].pc = "handle"
    /\ calls[c].handle.waiting
    /\ calls[c].handle.status = "InProgress"
    /\ calls' = [calls EXCEPT ![c].handle.waiting = FALSE,
                              ![c].handle.lastOutcome = "Timeout"]
    /\ UNCHANGED <<svcLog, errorMapTable>>

\* one second passes
Tick ==
    /\ \E c \in Slots : calls[c].handle.wait > 0
    /\ calls' = [c \in Slots |->
                    IF calls[c].handle.wait > 0
                    THEN [calls[c] EXCEPT !.handle.wait = @ - 1]
                    ELSE calls[c]]
    /\ UNCHANGED <<svcLog, errorMapTable>>

(***************************************************************************)
(* The submission: every keyword and every status code, no polling.        *)
(***************************************************************************)
InSubmit ==
    [polling |-> PollingValues, polling_interval |-> PollingIntervals,
     cls |-> ClsValues, error_map |-> ErrorMapOverrides,
     tokens |-> {EmptyToken, GarbageToken},
     status_code |-> StatusCodes, code |-> BodyCodes]

NextSubmit ==
    \/ \E c \in Slots : Begin(c, InSubmit) /\ UNCHANGED <<helperVars, validatorVars>>
    \/ \E c \in Slots : InitialResponse(c, InSubmit) /\ UNCHANGED <<helperVars, validatorVars>>

SpecSubmit == Init /\ [][NextSubmit]_vars

(***************************************************************************)
(* The life of a handle: submit, poll, resume, result, waitForCompletion.  *)
(***************************************************************************)
InLife ==
    [polling |-> {"True", "False"}, polling_interval |-> {<< >>},
     cls |-> ClsValues, error_map |-> {<< >>},
     tokens |-> {GarbageToken},
     status_code |-> {200, 202, 409}, code |-> {""},
     responses |-> {r \in PollResponses : r.retry_after = << >>}]

Next ==
    \/ \E c \in Slots : Begin(c, InLife) /\ UNCHANGED <<helperVars, validatorVars>>
    \/ \E c \in Slots : InitialResponse(c, InLife) /\ UNCHANGED <<helperVars, validatorVars>>
    \/ \E c \in Slots : Poll(c, InLife) /\ UNCHANGED <<helperVars, validatorVars>>
    \/ \E c \in Slots : Result(c) /\ UNCHANGED <<helperVars, validatorVars>>
    \/ \E c \in Slots : WaitForCompletion(c) /\ UNCHANGED <<helperVars, validatorVars>>
    \/ \E c \in Slots : WaitTimeout(c) /\ UNCHANGED <<helperVars, validatorVars>>
    \/ Tick /\ UNCHANGED <<helperVars, validatorVars>>

Spec == Init /\ [][Next]_vars

(***************************************************************************)
(* The delay between polls: every polling and polling_interval keyword,    *)
(* poll responses with and without a Retry-After header.                   *)
(***************************************************************************)
InTiming ==
    [polling |-> PollingValues, polling_interval |-> PollingIntervals,
     cls |-> {"None"}, error_map |-> {<< >>},
     tokens |-> {},
     status_code |-> {202}, code |-> {""},
     responses |-> {r \in PollResponses : r.kind \in {"Running", "Succeeded"}}]

NextTiming ==
    \/ \E c \in Slots : Begin(c, InTiming) /\ UNCHANGED <<helperVars, validatorVars>>
    \/ \E c \in Slots : InitialResponse(c, InTiming) /\ UNCHANGED <<helperVars, validatorVars>>
    \/ \E c \in Slots : Poll(c, InTiming) /\ UNCHANGED <<helperVars, validatorVars>>
    \/ Tick /\ UNCHANGED <<helperVars, validatorVars>>

SpecTiming == Init /\ [][NextTiming]_vars

(***************************************************************************)
(* rp_registrations: the listing GET, then the registration POSTs.         *)
(***************************************************************************)
\* lines 40-76: the GET fails, or the flags are set from its listing
RpListing ==
    /\ rp.pc = "idle"
    /\ \/ rp' = [rp EXCEPT !.pc = "raised", !.error = "CLIError"]
       \/ \E values_array \in ProviderListings :
             rp' = [rp EXCEPT !.pc = "registering",
                              !.values_array = values_array,
                              !.flags = FlagsAfter(NoFlags, values_array)]
    /\ UNCHANGED <<lroVars, probe, sanitized, validatorVars>>

\* lines 77-88: one of the four `if` statements, with the POST it may send
RpRegister ==
    /\ rp.pc = "registering"
    /\ IF FlagTested(rp.flags, rp.step)
       THEN rp' = NextRegistration(rp)
       ELSE \E ok \in BOOLEAN : rp' = post_request(rp, RequiredRps[rp.step], ok)
    /\ UNCHANGED <<lroVars, probe, sanitized, validatorVars>>

NextRp ==
    \/ RpListing
    \/ RpRegister

SpecRp == Init /\ [][NextRp]_vars

(***************************************************************************)
(* check_azuremonitormetrics_profile, called once for each cluster.        *)
(***************************************************************************)
\* lines 91-110: the GET fails (lines 102-103), or its body is inspected
ProbeCheck(k) ==
    /\ probe[k].pc = "idle"
    /\ \/ probe' = [probe EXCEPT ![k] =
                       [IdleProbe EXCEPT !.pc = "raised", !.error = "UnknownError"]]
       \/ \E json_response \in ClusterResponses :
             probe' = [probe EXCEPT ![k] =
                          check_azuremonitormetrics_profile(json_response)]
    /\ UNCHANGED <<lroVars, rp, sanitized, validatorVars>>

NextProbe == \E k \in Clusters : ProbeCheck(k)

SpecProbe == Init /\ [][NextProbe]_vars

(***************************************************************************)
(* The argument validators: one validator is called on the parsed          *)
(* arguments of a command.                                                 *)
(***************************************************************************)
InitValidators ==
    /\ calls = [c \in Slots |-> IdleCall]
    /\ svcLog = [c \in Slots |-> << >>]
    /\ errorMapTable = DefaultErrorMap
    /\ rp = IdleRp
    /\ probe = [k \in Clusters |-> IdleProbe]
    /\ parsed \in ParsedNamespaces
    /\ namespace = parsed
    /\ validated = NotValidated
    /\ sanitized = NotSanitized

\* the call of a validator: it returns or raises, with the record as it
\* has left it
Call(validator, outcome) ==
    /\ validated.called = ""
    /\ namespace' = outcome.namespace
    /\ validated' = [called |-> validator, raised |-> outcome.raised]
    /\ UNCHANGED <<lroVars, helperVars, parsed>>

Call_validate_env_vars ==
    Call("validate_env_vars", validate_env_vars(namespace))

Call_validate_regionwise_engines ==
    Call("validate_regionwise_engines", validate_regionwise_engines(namespace))

Call_validate_start_iso_time ==
    Call("validate_start_iso_time", validate_start_iso_time(namespace))

Call_validate_end_iso_time ==
    Call("validate_end_iso_time", validate_end_iso_time(namespace))

Call_validate_download ==
    Call("validate_download", validate_download(namespace))

Call_validate_load_test_config_file ==
    Call("validate_load_test_config_file", validate_load_test_config_file(namespace))

Call_validate_test_plan_path ==
    Call("validate_test_plan_path", validate_test_plan_path(namespace))

NextValidators ==
    \/ Call_validate_env_vars
    \/ Call_validate_regionwise_engines
    \/ Call_validate_start_iso_time
    \/ Call_validate_end_iso_time
    \/ Call_validate_download
    \/ Call_validate_load_test_config_file
    \/ Call_validate_test_plan_path

SpecValidators == InitValidators /\ [][NextValidators]_vars

(***************************************************************************)
(* The validators of the notification events.                              *)
(***************************************************************************)
InitEvents ==
    /\ calls = [c \in Slots |-> IdleCall]
    /\ svcLog = [c \in Slots |-> << >>]
    /\ errorMapTable = DefaultErrorMap
    /\ rp = IdleRp
    /\ probe = [k \in Clusters |-> IdleProbe]
    /\ parsed \in ParsedEvents
    /\ namespace = parsed
    /\ validated = NotValidated
    /\ sanitized = NotSanitized

Call_validate_event ==
    Call("validate_event", validate_event(namespace))

Call_validate_add_event ==
    Call("validate_add_event", validate_add_event(namespace))

NextEvents ==
    \/ Call_validate_event
    \/ Call_validate_add_event

SpecEvents == InitEvents /\ [][NextEvents]_vars

(***************************************************************************)
(* The validator of the dimension filters.                                 *)
(***************************************************************************)
InitFilters ==
    /\ calls = [c \in Slots |-> IdleCall]
    /\ svcLog = [c \in Slots |-> << >>]
    /\ errorMapTable = DefaultErrorMap
    /\ rp = IdleRp
    /\ probe = [k \in Clusters |-> IdleProbe]
    /\ parsed \in ParsedFilters
    /\ namespace = parsed
    /\ validated = NotValidated
    /\ sanitized = NotSanitized

Call_validate_dimension_filters ==
    Call("validate_dimension_filters", validate_dimension_filters(namespace))

NextFilters == Call_validate_dimension_filters

SpecFilters == InitFilters /\ [][NextFilters]_vars

(***************************************************************************)
(* sanitize_resource_id, applied to a resource id and then to its own      *)
(* result.                                                                 *)
(***************************************************************************)
InitSanitize ==
    /\ calls = [c \in Slots |-> IdleCall]
    /\ svcLog = [c \in Slots |-> << >>]
    /\ errorMapTable = DefaultErrorMap
    /\ rp = IdleRp
    /\ probe = [k \in Clusters |-> IdleProbe]
    /\ parsed = NoArguments
    /\ namespace = NoArguments
    /\ validated = NotValidated
    /\ sanitized \in {[given |-> x, values |-> << >>] : x \in ResourceIds}

\* one call: of the resource id given, or of the value the last call returned
Sanitize ==
    /\ Len(sanitized.values) < MaxSanitize
    /\ LET resource_id == IF sanitized.values = << >> THEN sanitized.given
                          ELSE sanitized.values[Len(sanitized.values)]
       IN  sanitized' = [sanitized EXCEPT
                            !.values = Append(@, sanitize_resource_id(resource_id))]
    /\ UNCHANGED <<lroVars, rp, probe, validatorVars>>

NextSanitize == Sanitize

SpecSanitize == InitSanitize /\ [][NextSanitize]_vars

(***************************************************************************)
(* Properties of the submission (SpecSubmit).                              *)
(***************************************************************************)
Answered == {c \in Slots : calls[c].status_code # << >>}
Handles == {c \in Slots : calls[c].pc = "handle"}

\* the interval lines 108-111 give the call of slot c
EffectiveInterval(c) ==
    IF calls[c].polling_interval = << >>
    THEN ConfigPollingInterval ELSE calls[c].polling_interval[1]

\* the error kind the status code sc has under the literal of lines 36-38
DefaultKind(sc) ==
    CASE sc = 401 -> "ClientAuthenticationError"
      [] sc = 404 -> "ResourceNotFoundError"
      [] sc = 409 -> "ResourceExistsError"
      [] OTHER -> "HttpResponseError"

C2_KindByStatusCode ==
    \A c \in Answered :
        calls[c].pc = "failed" =>
            calls[c].error.kind = DefaultKind(calls[c].status_code[1])

\* C2 as amended: the error kind is the one the call's error_map keyword gives
\* the status code, when it gives one; otherwise 401 gives
\* ClientAuthenticationError, 404 ResourceNotFoundError, 409
\* ResourceExistsError and every other rejected status the generic
\* HttpResponseError.
C2_KindByEffectiveMap ==
    \A c \in Answered :
        calls[c].pc = "failed" =>
            LET sc == calls[c].status_code[1]
            IN  calls[c].error.kind =
                    IF sc \in DOMAIN calls[c].override
                    THEN calls[c].override[sc] ELSE DefaultKind(sc)

\* a 409 with body code Conflict and no error_map keyword has failed with
\* ResourceExistsError carrying Conflict, and a 409 under an error_map
\* keyword for 409 has failed with the keyword's kind
C2_Witness ==
    \E c, d \in Slots :
        /\ calls[c].pc = "failed" /\ calls[c].status_code = <<409>>
        /\ calls[c].override = << >>
        /\ calls[c].error = [kind |-> "ResourceExistsError", code |-> "Conflict"]
        /\ calls[d].pc = "failed" /\ calls[d].status_code = <<409>>
        /\ calls[d].override # << >>
        /\ calls[d].error.kind = "CustomError"

\* C9: the poller has the no-polling strategy exactly when polling is False,
\* the ARM strategy with the effective polling interval when polling is True,
\* and the caller's own polling object in every other case.
C9_PollingStrategy ==
    \A c \in Handles :
        LET m == calls[c].handle.polling_method
        IN  /\ (m.kind = "AsyncNoPolling") <=> (calls[c].polling = "False")
            /\ calls[c].polling = "True" =>
                   m = [kind |-> "AsyncARMPolling", timeout |-> EffectiveInterval(c)]
            /\ calls[c].polling \notin {"True", "False"} =>
                   m = [kind |-> "Object", timeout |-> ObjectPollingInterval]

\* a call given its own polling object and a polling_interval holds a handle
\* with that object, beside a call given polling True and the same interval
C9_Witness ==
    \E c, d \in Handles :
        /\ calls[c].polling = "Object" /\ calls[c].polling_interval = <<2>>
        /\ calls[c].handle.polling_method.kind = "Object"
        /\ calls[d].polling = "True" /\ calls[d].polling_interval = <<2>>
        /\ calls[d].handle.polling_method.timeout = 2

\* C10: under every interleaving of the calls, the literal error map is never
\* changed, and the error map, the error kind, the strategy and the handle
\* of a call are those its own keywords and its own answer give.
C10_CallsIndependent ==
    /\ errorMapTable = DefaultErrorMap
    /\ \A c \in Slots :
        /\ calls[c].pc = "awaiting" =>
               calls[c].error_map = update(DefaultErrorMap, calls[c].override)
        /\ (calls[c].pc = "failed" /\ c \in Answered) =>
               LET sc == calls[c].status_code[1]
               IN  calls[c].error.kind =
                       IF sc \in DOMAIN calls[c].override
                       THEN calls[c].override[sc] ELSE DefaultKind(sc)
        /\ calls[c].pc = "handle" =>
               LET h == calls[c].handle
               IN  /\ h.polling_method.kind =
                          CASE calls[c].polling = "True" -> "AsyncARMPolling"
                            [] calls[c].polling = "False" -> "AsyncNoPolling"
                            [] OTHER -> "Object"
                   /\ h.origin = "fresh" =>
                          /\ h.op = c
                          /\ h.status = IF calls[c].status_code = <<202>>
                                        THEN "InProgress" ELSE "Succeeded"
                   /\ h.origin = "resumed" =>
                          /\ h.op = calls[c].cont_token.op
                          /\ h.pos = calls[c].cont_token.pos
                          /\ h.status = calls[c].cont_token.status

\* a call made with an error_map keyword for 409 is still outstanding while
\* another call, made without the keyword, has failed on a 409 with the
\* default kind
C10_Witness ==
    \E c, d \in Slots :
        /\ calls[c].pc = "awaiting" /\ 409 \in DOMAIN calls[c].override
        /\ calls[d].pc = "failed" /\ calls[d].status_code = <<409>>
        /\ calls[d].override = << >>
        /\ calls[d].error.kind = "ResourceExistsError"

(***************************************************************************)
(* Properties of the life of a handle (Spec).                              *)
(***************************************************************************)
\* slot c polls in this step
PollStep(c) ==
    /\ calls[c].pc = "handle"
    /\ calls'[c].handle.pos = calls[c].handle.pos + 1

\* the response the poll of this step by slot c was answered with
PolledResponse(c) == svcLog'[calls[c].handle.op][calls'[c].handle.pos]

\* C3: a handle stays a handle, its status is InProgress or terminal, and a
\* terminal status is never left, whatever step is taken.
C3_StatusMonotonic ==
    [][\A c \in Slots :
          calls[c].pc = "handle" =>
              /\ calls'[c].pc = "handle"
              /\ calls'[c].handle.status \in {"InProgress"} \cup TerminalStatuses
              /\ calls[c].handle.status \in TerminalStatuses =>
                     calls'[c].handle.status = calls[c].handle.status]_vars

\* a handle that became terminal by a poll, on which result was then called,
\* and from whose token a second handle was resumed
C3_Witness ==
    \E c, d \in Handles :
        /\ c # d
        /\ calls[c].handle.status \in TerminalStatuses
        /\ calls[c].handle.pos >= 1
        /\ calls[c].handle.result.at = calls[c].handle.status
        /\ calls[d].handle.origin = "resumed"
        /\ calls[d].handle.op = calls[c].handle.op
        /\ calls[d].handle.status = calls[c].handle.status

\* the pairs (original handle, handle resumed from a token taken while the
\* operation was in flight), both polled to a terminal status
ResumedPairs ==
    {p \in Handles \X Handles :
        /\ calls[p[1]].handle.origin = "fresh"
        /\ calls[p[2]].handle.origin = "resumed"
        /\ calls[p[2]].cont_token.op = p[1]
        /\ calls[p[2]].cont_token.status = "InProgress"
        /\ calls[p[1]].handle.status \in TerminalStatuses
        /\ calls[p[2]].handle.status \in TerminalStatuses}

\* result has been called on the handle of slot c after it became terminal
HasFinalResult(c) == calls[c].handle.result.at \in TerminalStatuses

\* C4 as stated: the resumed handle reaches the same terminal status and
\* result returns the same as for the original handle.
C4_SameStatusAndPayload ==
    \A p \in ResumedPairs :
        /\ calls[p[1]].handle.status = calls[p[2]].handle.status
        /\ (HasFinalResult(p[1]) /\ HasFinalResult(p[2])) =>
               calls[p[1]].handle.result = calls[p[2]].handle.result

\* C4 as amended: the resumed handle reaches the same terminal status, and
\* result returns the same as for the original handle when the resuming call
\* was given the same cls as the original call.
C4_SameStatusAndPayloadUnderSameCls ==
    \A p \in ResumedPairs :
        /\ calls[p[1]].handle.status = calls[p[2]].handle.status
        /\ (HasFinalResult(p[1]) /\ HasFinalResult(p[2])
                /\ calls[p[1]].cls = calls[p[2]].cls) =>
               calls[p[1]].handle.result = calls[p[2]].handle.result

\* an original and a resumed handle, both made with a cls, the resumed one
\* polled by itself to Succeeded, both with their payload returned
C4_Witness ==
    \E p \in ResumedPairs :
        /\ calls[p[1]].cls = "Cls" /\ calls[p[2]].cls = "Cls"
        /\ calls[p[2]].handle.pos > calls[p[2]].cont_token.pos
        /\ calls[p[1]].handle.result.outcome = "Payload"
        /\ calls[p[2]].handle.result.outcome = "Payload"

\* C5: result called on an InProgress handle fails with OperationNotComplete
\* and returns no payload; a payload is returned only at status Succeeded.
C5_ResultNeedsCompletion ==
    \A c \in Handles :
        LET r == calls[c].handle.result
        IN  /\ r.at = "InProgress" =>
                   r.outcome = "OperationNotComplete" /\ r.value = << >>
            /\ r.outcome = "Payload" =>
                   r.at = "Succeeded" /\ calls[c].handle.status = "Succeeded"

\* result was called on a handle that had polled and was still InProgress
C5_Witness ==
    \E c \in Handles :
        /\ calls[c].handle.pos >= 1
        /\ calls[c].handle.status = "InProgress"
        /\ calls[c].handle.result.at = "InProgress"
        /\ calls[c].handle.result.outcome = "OperationNotComplete"

\* C6: a poll answered by a transport failure or a rejected status code
\* surfaces as RequestFailed, leaves the status as it was, and leaves the
\* handle such that poll can be called on it again.
C6_PollFailureKeepsStatus ==
    [][\A c \in Slots :
          (PollStep(c) /\ PolledResponse(c).kind \in PollFailures) =>
              /\ calls'[c].handle.status = calls[c].handle.status
              /\ calls'[c].handle.lastOutcome = "RequestFailed"
              /\ calls'[c].handle.status = "InProgress"
              /\ calls'[c].handle.wait = 0]_vars

\* a handle whose first poll failed and whose second poll, on the same
\* handle, was answered
C6_Witness ==
    \E c \in Handles :
        /\ calls[c].handle.origin = "fresh"
        /\ calls[c].handle.pos = 2
        /\ svcLog[c][1].kind \in PollFailures
        /\ svcLog[c][2].kind = "Succeeded"
        /\ calls[c].handle.status = "Succeeded"

DelayKept(c) ==
    /\ PollStep(c) => calls[c].handle.wait = 0
    /\ (calls[c].pc = "handle" /\ calls'[c].handle.wait < calls[c].handle.wait) =>
           /\ ~PollStep(c)
           /\ calls'[c].handle.wait = calls[c].handle.wait - 1

\* the delay set by the poll of this step, answered Running, is n
DelaySet(c, n) == calls'[c].handle.wait = n

ListedRegistered(ns) ==
    \E i \in DOMAIN rp.values_array :
        /\ lower(rp.values_array[i].namespace) = ns
        /\ lower(rp.values_array[i].registrationState) = "registered"

\* a registration POST was sent for the namespace
Posted(ns) == \E i \in DOMAIN rp.posts : rp.posts[i].rp_name = ns

RequiredNamespaces == {RequiredRps[i] : i \in DOMAIN RequiredRps}

\* C11: when rp_registrations has gone through its registrations, a POST was
\* sent for a required namespace if and only if the listing does not show
\* that namespace as Registered, and no POST was sent for another namespace.
C11_PostIffNotRegistered ==
    rp.pc = "returned" =>
        /\ \A ns \in RequiredNamespaces : Posted(ns) <=> ~ListedRegistered(ns)
        /\ \A i \in DOMAIN rp.posts : rp.posts[i].rp_name \in RequiredNamespaces

\* C11, the failing run: microsoft.monitor is listed as Registered and is
\* registered again, microsoft.alertsmanagement is not listed as Registered
\* and is not registered.
C11_Witness ==
    /\ rp.pc = "returned"
    /\ ListedRegistered("microsoft.monitor") /\ Posted("microsoft.monitor")
    /\ ~ListedRegistered("microsoft.alertsmanagement")
    /\ ~Posted("microsoft.alertsmanagement")

\* C12 as stated: no POST is sent for microsoft.monitor or
\* microsoft.dashboard when microsoft.alertsmanagement is listed as
\* Registered, and none for microsoft.alertsmanagement when microsoft.monitor
\* or microsoft.dashboard is listed as Registered.
C12_SharedFlagBothWays ==
    rp.pc = "returned" =>
        /\ ListedRegistered("microsoft.alertsmanagement") =>
              ~Posted("microsoft.monitor") /\ ~Posted("microsoft.dashboard")
        /\ (ListedRegistered("microsoft.monitor")
               \/ ListedRegistered("microsoft.dashboard")) =>
              ~Posted("microsoft.alertsmanagement")

\* C12 amended: microsoft.monitor and microsoft.dashboard are never treated
\* as registered, a POST is sent for both whatever the listing shows; and
\* microsoft.alertsmanagement is treated as registered exactly when
\* microsoft.alertsmanagement, microsoft.monitor or microsoft.dashboard is
\* listed as Registered.
C12_SharedFlagOneWay ==
    rp.pc = "returned" =>
        /\ Posted("microsoft.monitor") /\ Posted("microsoft.dashboard")
        /\ ~Posted("microsoft.alertsmanagement") <=>
              \/ ListedRegistered("microsoft.alertsmanagement")
              \/ ListedRegistered("microsoft.monitor")
              \/ ListedRegistered("microsoft.dashboard")

\* C12: a run whose listing shows microsoft.alertsmanagement and
\* microsoft.monitor as Registered
C12_Witness ==
    /\ rp.pc = "returned"
    /\ ListedRegistered("microsoft.alertsmanagement")
    /\ ListedRegistered("microsoft.monitor")
    /\ Posted("microsoft.monitor") /\ Posted("microsoft.dashboard")
    /\ ~Posted("microsoft.alertsmanagement")

\* position of a namespace in the order of the registrations
OrderOf(ns) == CHOOSE i \in DOMAIN RequiredRps : RequiredRps[i] = ns

\* C13: a failed listing GET ends rp_registrations with an error and no POST
\* sent; a failed POST ends it with an error, is the last POST sent, and no
\* namespace is POSTed twice or out of the order insights, alertsmanagement,
\* monitor, dashboard.
C13_FailureAbortsPass ==
    /\ \A i \in DOMAIN rp.posts :
          ~rp.posts[i].ok =>
              i = Len(rp.posts) /\ rp.pc = "raised" /\ rp.error = "CLIError"
    /\ rp.pc = "raised" =>
          /\ rp.error = "CLIError"
          /\ rp.posts = << >> \/ ~rp.posts[Len(rp.posts)].ok
    /\ \A i, j \in DOMAIN rp.posts :
          i < j => OrderOf(rp.posts[i].rp_name) < OrderOf(rp.posts[j].rp_name)

\* C13: the POST for microsoft.monitor failed after an earlier POST had
\* succeeded; microsoft.dashboard was not POSTed
C13_Witness ==
    /\ rp.pc = "raised"
    /\ Len(rp.posts) >= 2
    /\ rp.posts[Len(rp.posts)] = [rp_name |-> "microsoft.monitor", ok |-> FALSE]
    /\ ~Posted("microsoft.dashboard")

\* properties.azureMonitorProfile.metrics.enabled of the response is true
EnabledIsTrue(json_response) ==
    /\ "properties" \in DOMAIN json_response
    /\ "azureMonitorProfile" \in DOMAIN json_response["properties"]
    /\ "metrics" \in DOMAIN json_response["properties"]["azureMonitorProfile"]
    /\ "enabled" \in
          DOMAIN json_response["properties"]["azureMonitorProfile"]["metrics"]
    /\ json_response["properties"]["azureMonitorProfile"]["metrics"]["enabled"] = "true"

\* C14: for every cluster resource fetched, check_azuremonitormetrics_profile
\* returns, with true exactly when properties.azureMonitorProfile.metrics
\* .enabled is true; a missing key on that path gives false, not an error.
C14_MissingKeyIsFalse ==
    \A k \in Clusters :
        probe[k].pc # "idle" /\ probe[k].error # "UnknownError" =>
            /\ probe[k].pc = "returned"
            /\ probe[k].value = "True" <=> EnabledIsTrue(probe[k].json_response)

\* C14, the failing call: the cluster has properties.azureMonitorProfile
\* .metrics without the key enabled, and the call ends with KeyError
C14_Witness ==
    \E k \in Clusters :
        /\ probe[k].pc = "raised" /\ probe[k].error = "KeyError"
        /\ probe[k].json_response =
              ("properties" :> ("azureMonitorProfile" :> ("metrics" :> EmptyDict)))

(***************************************************************************)
(* begin_upgrade_extensions: the initial request and the token.            *)
(***************************************************************************)
\* the calls that have gone past line 113
Begun == {c \in Slots : calls[c].pc # "idle"}

\* C19: a call of begin_upgrade_extensions sends the initial POST at most
\* once: once when no continuation token is given, never when one is given
\* (the empty string included), and a rejected request is not sent again.
C19_InitialPostAtMostOnce ==
    \A c \in Slots :
        /\ calls[c].posts <= 1
        /\ c \in Begun =>
              /\ calls[c].cont_token.kind = "None" => calls[c].posts = 1
              /\ calls[c].cont_token.kind # "None" => calls[c].posts = 0
        /\ (calls[c].pc = "failed" /\ calls[c].status_code # << >>) =>
              calls[c].posts = 1

\* a call given the empty string as token has ended without a POST, beside
\* a call given no token whose POST was rejected
C19_Witness ==
    \E c, d \in Slots :
        /\ calls[c].pc = "failed" /\ calls[c].cont_token = EmptyToken
        /\ calls[c].posts = 0
        /\ calls[d].pc = "failed" /\ calls[d].status_code = <<409>>
        /\ calls[d].posts = 1

\* C20: for every value of continuation_token a fresh poller is built only
\* from the response of an initial request sent in the same call, a resumed
\* poller only from the token, and no call that skipped the initial request
\* takes the fresh-poller path (line 140) without a response.
C20_PollerMatchesToken ==
    \A c \in Slots :
        /\ (calls[c].pc = "handle" /\ calls[c].handle.origin = "fresh") =>
              calls[c].posts = 1 /\ calls[c].status_code # << >>
        /\ (calls[c].pc = "handle" /\ calls[c].handle.origin = "resumed") =>
              calls[c].posts = 0 /\ calls[c].cont_token.kind \notin {"None", "Empty"}
        /\ ~(calls[c].posts = 0 /\ calls[c].error.kind = "UnboundLocalError")

\* C20, the failing call: continuation_token is the empty string, no POST is
\* sent, and line 140 reads raw_result, which was never assigned
C20_Witness ==
    \E c \in Slots :
        /\ calls[c].pc = "failed" /\ calls[c].cont_token = EmptyToken
        /\ calls[c].posts = 0 /\ calls[c].error.kind = "UnboundLocalError"

(***************************************************************************)
(* The argument validators: the claims.                                    *)
(***************************************************************************)
\* C15: whenever a validator raises, every field of the parsed-arguments
\* record holds the value it had before the validator was called.
C15_NoPartialNormalization ==
    validated.raised # "" => namespace = parsed

\* C15, the failing call: validate_test_plan_path on ./plan.txt raises for
\* the extension and leaves the normalized path plan.txt in the field
C15_Witness ==
    /\ validated = [called |-> "validate_test_plan_path",
                    raised |-> "InvalidArgumentValueError"]
    /\ parsed.test_plan = PyStr(<<".", "plan.txt">>)
    /\ namespace.test_plan = PyStr(<<"plan.txt">>)

\* the items of a list that are not empty
NonEmpty(items) == {i \in DOMAIN items : items[i] # << >>}

HasEquals(item) == \E j \in DOMAIN item : item[j] = "="

\* the last item of the list that gives the key
LastFor(items, key) ==
    CHOOSE i \in NonEmpty(items) :
        /\ split1(items[i], "=")[1] = key
        /\ \A j \in NonEmpty(items) : split1(items[j], "=")[1] = key => j <= i

RegionCountPair(item) ==
    /\ HasEquals(item)
    /\ lower_str(strip(split1(item, "=")[1])) \in location_names
    /\ strip(split1(item, "=")[2]) \in IntTexts

\* C17: validate_regionwise_engines on a list returns if and only if every
\* item is a region=count pair as above; the resulting list then has one
\* entry for each item, in input order, and every entry names one of the
\* subscription's locations; otherwise it raises InvalidArgumentValueError.
C17_RegionsFromLocations ==
    (validated.called = "validate_regionwise_engines"
        /\ parsed.regionwise_engines.t = "list") =>
        LET items == parsed.regionwise_engines.v
            entries == namespace.regionwise_engines.v
        IN  IF \A i \in DOMAIN items : RegionCountPair(items[i])
            THEN /\ validated.raised = ""
                 /\ namespace.regionwise_engines.t = "list"
                 /\ Len(entries) = Len(items)
                 /\ \A i \in DOMAIN entries :
                        /\ entries[i].region \in location_names
                        /\ entries[i].region =
                              lower_str(strip(split1(items[i], "=")[1]))
            ELSE validated.raised = "InvalidArgumentValueError"

\* " EastUS=3" and "westus =-3" are accepted as eastus and westus
C17_Witness ==
    /\ validated = [called |-> "validate_regionwise_engines", raised |-> ""]
    /\ parsed.regionwise_engines =
          PyList(<< <<" ", "EastUS", "=", "3">>, <<"westus", " ", "=", "-", "3">> >>)
    /\ namespace.regionwise_engines =
          PyList(<< [region |-> <<"eastus">>, engineInstances |-> 3],
                    [region |-> <<"westus">>, engineInstances |-> 0 - 3] >>)

\* the field an ISO-time validator reads
TimeField(ns) ==
    IF validated.called = "validate_start_iso_time" THEN ns.start_time
    ELSE ns.end_time

IsoTimeValidated ==
    validated.called \in {"validate_start_iso_time", "validate_end_iso_time"}

\* the string is written YYYY-MM-DDTHH:MM:SSZ or YYYY-MM-DDTHH:MM:SS.ffffffZ
FixedForm(string) ==
    /\ Len(string) \in {12, 14}
    /\ Width(string[1]) = 4
    /\ \A i \in {3, 5, 7, 9, 11} : Width(string[i]) = 2
    /\ string[2] = "-" /\ string[4] = "-" /\ string[6] = "T"
    /\ string[8] = ":" /\ string[10] = ":"
    /\ string[Len(string)] = "Z"
    /\ Len(string) = 14 => string[12] = "." /\ Width(string[13]) = 6

\* C18 as stated: the ISO-time validators accept a string exactly when it
\* has one of the two forms above, accept an absent value, raise
\* InvalidArgumentValueError for every other input, and never change the
\* field.
C18_AcceptsFixedForms ==
    IsoTimeValidated =>
        LET string == TimeField(parsed)
        IN  /\ namespace = parsed
            /\ validated.raised \in {"", "InvalidArgumentValueError"}
            /\ validated.raised = "" <=>
                  \/ string.t = "None"
                  \/ string.t = "str" /\ FixedForm(string.v)

\* the string is a date and time that both formats' fields allow: a year of
\* four digits, month, day, hour, minute and second of one or two digits,
\* a fraction of one to six digits if any, T and Z in either case, and
\* values that make a date and a time of day
ParsedByFormats(string) ==
    /\ Len(string) \in {12, 14}
    /\ Width(string[1]) = 4 /\ Value(string[1]) >= 1
    /\ \A i \in {3, 5, 7, 9, 11} : Width(string[i]) \in {1, 2}
    /\ string[2] = "-" /\ string[4] = "-" /\ string[6] \in {"T", "t"}
    /\ string[8] = ":" /\ string[10] = ":"
    /\ string[Len(string)] \in {"Z", "z"}
    /\ Len(string) = 14 =>
          string[12] = "." /\ Width(string[13]) >= 1 /\ Width(string[13]) <= 6
    /\ Value(string[3]) \in 1..12
    /\ Value(string[5]) \in 1..DaysInMonth(Value(string[1]), Value(string[3]))
    /\ Value(string[7]) \in 0..23
    /\ Value(string[9]) \in 0..59
    /\ Value(string[11]) \in 0..59

\* C18 amended: the ISO-time validators accept a string exactly when
\* datetime.strptime parses it with one of the two formats, accept an
\* absent value, raise InvalidArgumentValueError for every other input, a
\* date without a time part included, and never change the field.
C18_AcceptsWhatTheFormatsParse ==
    IsoTimeValidated =>
        LET string == TimeField(parsed)
        IN  /\ namespace = parsed
            /\ validated.raised \in {"", "InvalidArgumentValueError"}
            /\ validated.raised = "" <=>
                  \/ string.t = "None"
                  \/ string.t = "str" /\ ParsedByFormats(string.v)
            /\ (string.t = "str" /\ string.v \in Dates) =>
                  validated.raised = "InvalidArgumentValueError"

\* 2024-1-01t0:0:0Z, written without leading zeros and with a small t, is
\* accepted by validate_start_iso_time
C18_Witness ==
    /\ validated = [called |-> "validate_start_iso_time", raised |-> ""]
    /\ parsed.start_time =
          PyStr(<<"2024", "-", "1", "-", "01", "t", "0", ":", "0", ":", "0", "Z">>)
    /\ namespace = parsed

(***************************************************************************)
(* The validators of the notification events: the claims.                  *)
(***************************************************************************)
EventValidated == validated.called \in {"validate_event", "validate_add_event"}

\* the field an event validator reads and writes
EventField(ns) ==
    IF validated.called = "validate_event" THEN ns.event ELSE ns.add_event

\* the event-ids that the text of one event of the input gives
IdsIn(event_group) ==
    LET parts == IF event_group.t = "list" THEN event_group.v ELSE <<event_group.v>>
    IN  {parts[k][j + 2] : <<k, j>> \in
            {kj \in (DOMAIN parts) \X (1..8) :
                /\ kj[2] + 2 <= Len(parts[kj[1]])
                /\ parts[kj[1]][kj[2]] = "event-id"
                /\ parts[kj[1]][kj[2] + 1] = "="}}

\* C21: the list an event validator returns has one event for each event
\* of the input, in input order, and pairwise distinct event-ids; when two
\* events of the input carry the same event-id it raises
\* InvalidArgumentValueError and the field keeps the input.
C21_EventIdsDistinct ==
    (EventValidated /\ EventField(parsed).t = "list") =>
        LET given == EventField(parsed).v
            out == EventField(namespace)
        IN  /\ validated.raised \in {"", "InvalidArgumentValueError"}
            /\ validated.raised = "" =>
                  /\ out.t = "list"
                  /\ Len(out.v) = Len(given)
                  /\ \A i \in DOMAIN given :
                        \E id \in IdsIn(given[i]) :
                            out.v[i].v[<<"event-id">>] = PyStr(<<id>>)
                  /\ \A i, j \in DOMAIN out.v :
                        i # j => out.v[i].v[<<"event-id">>] # out.v[j].v[<<"event-id">>]
            /\ (\E i, j \in DOMAIN given :
                    i < j /\ IdsIn(given[i]) \cap IdsIn(given[j]) # {}) =>
                  /\ validated.raised = "InvalidArgumentValueError"
                  /\ namespace = parsed

\* two events with the event-ids e2 and e1 are returned in that order
C21_Witness ==
    /\ validated = [called |-> "validate_event", raised |-> ""]
    /\ parsed.event.t = "list" /\ Len(parsed.event.v) = 2
    /\ IdsIn(parsed.event.v[1]) = {"e2"} /\ IdsIn(parsed.event.v[2]) = {"e1"}
    /\ namespace.event.t = "list" /\ Len(namespace.event.v) = 2
    /\ namespace.event.v[1].v[<<"event-id">>] = PyStr(<<"e2">>)
    /\ namespace.event.v[2].v[<<"event-id">>] = PyStr(<<"e1">>)

(***************************************************************************)
(* The validator of the dimension filters: the claims.                     *)
(***************************************************************************)
\* the key and the value that the text of one item gives: the text before
\* and after its first "=", or the whole text and the empty string
FirstEquals(item) == CHOOSE i \in DOMAIN item :
                        item[i] = "=" /\ \A j \in 1..(i - 1) : item[j] # "="
KeyGiven(item) ==
    IF HasEquals(item) THEN SubSeq(item, 1, FirstEquals(item) - 1) ELSE item
ValueGiven(item) ==
    IF HasEquals(item) THEN SubSeq(item, FirstEquals(item) + 1, Len(item))
    ELSE << >>

\* the positions of the items that give a key (every item but the empty one)
Keyed(given) == {i \in DOMAIN given : given[i] # << >>}
FirstGiven(given, key) ==
    CHOOSE i \in Keyed(given) :
        KeyGiven(given[i]) = key
        /\ \A j \in Keyed(given) : KeyGiven(given[j]) = key => i <= j

\* the values given for a key, in input order
RECURSIVE ValuesGiven(_, _)
ValuesGiven(given, key) ==
    IF given = << >> THEN << >>
    ELSE IF Head(given) # << >> /\ KeyGiven(Head(given)) = key
    THEN <<PyStr(ValueGiven(Head(given)))>> \o ValuesGiven(Tail(given), key)
    ELSE ValuesGiven(Tail(given), key)

\* C22: validate_dimension_filters never raises for a list of strings and
\* leaves a list with exactly one {name, values} entry for each distinct
\* key of the items, the entries in the order of the first occurrence of
\* their keys, and the values of an entry being every value given for its
\* key in input order, duplicates kept and the empty string for an item
\* without "=".
C22_OneEntryPerKey ==
    (validated.called = "validate_dimension_filters"
     /\ parsed.dimension_filters.t = "list") =>
        LET given == parsed.dimension_filters.v
            out == namespace.dimension_filters
            name(e) == out.v[e].v[<<"name">>].v
        IN  /\ validated.raised = ""
            /\ out.t = "list"
            /\ \A e \in DOMAIN out.v :
                  /\ out.v[e].t = "dict"
                  /\ DOMAIN out.v[e].v = {<<"name">>, <<"values">>}
                  /\ out.v[e].v[<<"name">>].t = "str"
                  /\ out.v[e].v[<<"values">>] = PyList(ValuesGiven(given, name(e)))
            /\ {name(e) : e \in DOMAIN out.v}
                  = {KeyGiven(given[i]) : i \in Keyed(given)}
            /\ \A e, f \in DOMAIN out.v :
                  e < f => FirstGiven(given, name(e)) < FirstGiven(given, name(f))

\* K=a, J, K=a has been turned into K with the values a, a and then J with
\* the empty string
C22_Witness ==
    /\ validated = [called |-> "validate_dimension_filters", raised |-> ""]
    /\ parsed.dimension_filters = PyList(<<<<"K", "=", "a">>, <<"J">>, <<"K", "=", "a">>>>)
    /\ namespace.dimension_filters =
          PyList(<<PyDict((<<"name">> :> PyStr(<<"K">>))
                          @@ (<<"values">> :> PyList(<<PyStr(<<"a">>), PyStr(<<"a">>)>>))),
                   PyDict((<<"name">> :> PyStr(<<"J">>))
                          @@ (<<"values">> :> PyList(<<PyStr(<< >>)>>)))>>)

(***************************************************************************)
(* sanitize_resource_id: the claims.                                       *)
(***************************************************************************)
\* C23: sanitize_resource_id is idempotent: applied to its own result it
\* returns that result again, for every resource id.
C23_Idempotent ==
    Len(sanitized.values) = 2 => sanitized.values[2] = sanitized.values[1]

\* "b /" has been sanitized to "/b " and that to "/b"
C23_Witness ==
    /\ sanitized.given = <<"b", " ", "/">>
    /\ sanitized.values = <<<<"/", "b", " ">>, <<"/", "b">>>>

=============================================================================
